---- MODULE Spec2Model ----
(***************************************************************************)
(* Model of the JNI inference session of app/src/main/cpp/llama_jni.cpp:   *)
(* the LlamaContext struct, and the native entry points nativeLoadModel,    *)
(* nativeGenerate, nativeIsLoaded, nativeUnload and nativeFree.             *)
(*                                                                          *)
(* The llama.cpp runtime is an opaque collaborator.  Its answers (a model   *)
(* or null, a token count, a sampled token, a piece length, a decode        *)
(* status) are chosen nondeterministically from small sets.  Every object   *)
(* the runtime hands out gets a fresh identifier; the model keeps, per      *)
(* identifier, how many times it was released, so leaks and double          *)
(* releases are visible.                                                    *)
(***************************************************************************)
EXTENDS Integers, Sequences, FiniteSets, TLC

(***************************************************************************)
(* Bounds of the model.                                                     *)
(***************************************************************************)
\* models the runtime may hand out in one run (bounds the successful loads)
MaxModels == 2
\* sampler chains the runtime may hand out in one run (loads + generates)
MaxSamplers == 3
\* largest max_tokens a caller passes to generate
MaxBudget == 2

(***************************************************************************)
(* Program constants.                                                       *)
(***************************************************************************)
\* llama_sampler_init_temp(0.7f), in tenths
DefaultTemp == 7
\* std::vector<char> buf(512)
BufSize == 512
\* tokens.resize(prompt_string.length() + 256)
TokenizeHeadroom == 256
\* the token for which llama_vocab_is_eog answers true
EOG == 2

ErrNotLoaded == "Error: Model not loaded"
ErrTokenize == "Error: Failed to tokenize prompt"
ErrPrefill == "Error: Failed to evaluate prompt"

(***************************************************************************)
(* Inputs of the callers and answers of the runtime.                        *)
(***************************************************************************)
Threads == {1, 2}
\* context_ptr: 0 is the null handle, 1 the handle nativeInit returned
Handles == {0, 1}
Paths == {"", "model.gguf"}
\* prompts, by their length in bytes ("hi")
PromptLens == {2}
Budgets == (-1) .. MaxBudget
\* temperatures in tenths: 0.0 and 0.7
Temperatures == {0, DefaultTemp}
\* what llama_sampler_sample may return
SampleAnswers == {EOG, 7}
\* what the first llama_tokenize call may return: the count, or minus the
\* capacity it needs
TokenizeAnswers == {2, -300}
\* what llama_token_to_piece may return
PieceAnswers == {0, 2, BufSize}

VARIABLES
    alive,        \* the LlamaContext object exists (not yet deleted)
    model,        \* LlamaContext::model   (0 is nullptr)
    ctx,          \* LlamaContext::ctx
    sampler,      \* LlamaContext::sampler
    model_path,   \* LlamaContext::model_path
    is_loaded,    \* LlamaContext::is_loaded
    rel_model,    \* runtime: per model handed out, times it was released
    rel_ctx,      \* runtime: per context handed out, times it was released
    rel_sampler,  \* runtime: per sampler handed out, times it was released
    samp_temp,    \* runtime: per sampler handed out, its temperature stage
                  \* (NoTemp once the sampler is released)
    kv,           \* runtime: per context, the generate calls with cache entries
                  \* (none once the context is released)
    n_gen_calls,  \* number of generate calls that passed the loaded check
    crashed,      \* the process died inside the runtime
    ub,           \* per thread: its current/last call handed the runtime a null
                  \* or released object and went on
    pc,           \* per thread: position in the native call it is running
    loc,          \* per thread: the locals of nativeGenerate
    oplog,        \* per thread: runtime calls made by its current/last call
    hist,         \* per thread: the call, and the session as it was on entry
    ret           \* per thread: the value its last call returned

session == <<alive, model, ctx, sampler, model_path, is_loaded>>
runtime == <<rel_model, rel_ctx, rel_sampler, samp_temp, kv, n_gen_calls, crashed>>
vars == <<alive, model, ctx, sampler, model_path, is_loaded,
          rel_model, rel_ctx, rel_sampler, samp_temp, kv, n_gen_calls,
          crashed, ub, pc, loc, oplog, hist, ret>>

(***************************************************************************)
(* Helpers.                                                                 *)
(***************************************************************************)
Op(name, a, b, c) == [op |-> name, a |-> a, b |-> b, c |-> c]

Count(log, name) == Cardinality({k \in DOMAIN log : log[k].op = name})

\* llama_sampler_free / llama_free / llama_model_free: one more release of
\* the object; releasing nullptr does nothing
Release(rel, id) ==
    IF id = 0 THEN rel
    ELSE [rel EXCEPT ![id] = IF @ >= 2 THEN 2 ELSE @ + 1]

\* the runtime's record of a released object is gone with the object
Forget(tab, id, blank) ==
    IF id = 0 THEN tab ELSE [tab EXCEPT ![id] = blank]

\* the temperature of a sampler that no longer exists
NoTemp == -1

Live(rel) == {id \in DOMAIN rel : rel[id] = 0}

\* a handle to a released object
Dangling(rel, id) == IF id = 0 THEN FALSE ELSE rel[id] > 0

\* a handle the runtime must not be given: null, or to a released object.
\* What the runtime does with it is undefined: the process may die, or go on
\* with whatever the call returns.
Bad(rel, id) == IF id = 0 THEN TRUE ELSE rel[id] > 0

NoRet == [ok |-> FALSE, err |-> "", text |-> <<>>]
BoolRet(b) == [ok |-> b, err |-> "", text |-> <<>>]
ErrRet(e) == [ok |-> FALSE, err |-> e, text |-> <<>>]
TextRet(s) == [ok |-> TRUE, err |-> "", text |-> s]

NoLoc == [prompt_len |-> 0, max_tokens |-> 0, temperature |-> 0, cap |-> 0,
          n_tokens_prompt |-> 0, i |-> 0, n_gen |-> 0, new_token |-> 0,
          result |-> <<>>, gid |-> 0]

\* the session fields and release counts as a call finds them
Snapshot == [is_loaded |-> is_loaded, model |-> model, ctx |-> ctx,
             sampler |-> sampler, model_path |-> model_path,
             rel_model |-> rel_model, rel_ctx |-> rel_ctx,
             rel_sampler |-> rel_sampler, kv |-> kv,
             temp |-> IF sampler = 0 THEN NoTemp ELSE samp_temp[sampler]]

Entry(t, name, h, outcome) ==
    [op |-> name, h |-> h, outcome |-> outcome,
     after_unload |-> (hist[t].op = "unload" /\ hist[t].h = 1), pre |-> Snapshot]

\* a thread may start a native call: it is between calls and the process and
\* the session object are still there
CanCall(t) == pc[t] = "idle" /\ ~crashed /\ alive

\* the state nativeInit leaves: a fresh LlamaContext.  Thread 1 is the caller
\* of the session; thread 2 is not started.
Init ==
    /\ alive = TRUE
    /\ model = 0 /\ ctx = 0 /\ sampler = 0
    /\ model_path = ""
    /\ is_loaded = FALSE
    /\ rel_model = <<>> /\ rel_ctx = <<>> /\ rel_sampler = <<>>
    /\ samp_temp = <<>>
    /\ kv = <<>>
    /\ n_gen_calls = 0
    /\ crashed = FALSE
    /\ ub = [t \in Threads |-> FALSE]
    /\ pc = [t \in Threads |-> IF t = 1 THEN "idle" ELSE "off"]
    /\ loc = [t \in Threads |-> NoLoc]
    /\ oplog = [t \in Threads |-> <<>>]
    /\ hist = [t \in Threads |-> [op |-> "init", h |-> 1, outcome |-> "", after_unload |-> FALSE,
                                  pre |-> [is_loaded |-> FALSE, model |-> 0, ctx |-> 0,
                                           sampler |-> 0, model_path |-> "",
                                           rel_model |-> <<>>, rel_ctx |-> <<>>,
                                           rel_sampler |-> <<>>, kv |-> <<>>,
                                           temp |-> NoTemp]]]
    /\ ret = [t \in Threads |-> NoRet]

(***************************************************************************)
(* nativeLoadModel                                                          *)
(***************************************************************************)
\* null handle: return JNI_FALSE
LoadNull(t) ==
    /\ CanCall(t)
    /\ hist' = [hist EXCEPT ![t] = Entry(t, "load", 0, "null")]
    /\ ub' = [ub EXCEPT ![t] = FALSE]
    /\ oplog' = [oplog EXCEPT ![t] = <<>>]
    /\ ret' = [ret EXCEPT ![t] = BoolRet(FALSE)]
    /\ loc' = [loc EXCEPT ![t] = NoLoc]
    /\ UNCHANGED <<session, runtime, pc>>

\* llama_load_model_from_file returns nullptr
LoadModelFail(t, path) ==
    /\ CanCall(t)
    /\ model_path' = path
    /\ model' = 0
    /\ hist' = [hist EXCEPT ![t] = Entry(t, "load", 1, "model_fail")]
    /\ ub' = [ub EXCEPT ![t] = FALSE]
    /\ oplog' = [oplog EXCEPT ![t] = <<Op("load_model", 0, 0, 0)>>]
    /\ ret' = [ret EXCEPT ![t] = BoolRet(FALSE)]
    /\ loc' = [loc EXCEPT ![t] = NoLoc]
    /\ UNCHANGED <<alive, ctx, sampler, is_loaded, runtime, pc>>

\* a slip: the released model stays in the model field
CtxFailModelKept(m) == m

\* llamaCtx->model after llama_model_free(llamaCtx->model) on the failure path
CtxFailModel(m) == 0

\* the model is loaded, llama_new_context_with_model returns nullptr
LoadCtxFail(t, path) ==
    /\ CanCall(t)
    /\ Len(rel_model) < MaxModels
    /\ LET m == Len(rel_model) + 1 IN
        /\ model_path' = path
        /\ ctx' = 0
        /\ rel_model' = Release(Append(rel_model, 0), m)
        /\ model' = CtxFailModel(m)
        /\ hist' = [hist EXCEPT ![t] = Entry(t, "load", 1, "ctx_fail")]
        /\ ub' = [ub EXCEPT ![t] = FALSE]
        /\ oplog' = [oplog EXCEPT ![t] =
                        <<Op("load_model", m, 0, 0), Op("new_context", 0, m, 0),
                          Op("model_free", m, 0, 0)>>]
        /\ ret' = [ret EXCEPT ![t] = BoolRet(FALSE)]
    /\ UNCHANGED <<alive, sampler, is_loaded, rel_ctx, rel_sampler, samp_temp, kv,
                   n_gen_calls, crashed, pc>>
    /\ loc' = [loc EXCEPT ![t] = NoLoc]

\* model, context and sampler chain are all created
LoadOk(t, path) ==
    /\ CanCall(t)
    /\ Len(rel_model) < MaxModels
    /\ Len(rel_sampler) < MaxSamplers
    /\ LET m == Len(rel_model) + 1
           c == Len(rel_ctx) + 1
           s == Len(rel_sampler) + 1
       IN
        /\ model_path' = path
        /\ model' = m
        /\ rel_model' = Append(rel_model, 0)
        /\ ctx' = c
        /\ rel_ctx' = Append(rel_ctx, 0)
        /\ kv' = Append(kv, {})
        /\ sampler' = s
        /\ rel_sampler' = Append(rel_sampler, 0)
        /\ samp_temp' = Append(samp_temp, DefaultTemp)
        /\ is_loaded' = TRUE
        /\ hist' = [hist EXCEPT ![t] = Entry(t, "load", 1, "ok")]
        /\ ub' = [ub EXCEPT ![t] = FALSE]
        /\ oplog' = [oplog EXCEPT ![t] =
                        <<Op("load_model", m, 0, 0), Op("new_context", c, m, 0),
                          Op("sampler_init", s, DefaultTemp, 0)>>]
        /\ ret' = [ret EXCEPT ![t] = BoolRet(TRUE)]
    /\ loc' = [loc EXCEPT ![t] = NoLoc]
    /\ UNCHANGED <<alive, n_gen_calls, crashed, pc>>

\* no file has the empty name: the runtime finds a model only at a real path
Load(t) ==
    \/ LoadNull(t)
    \/ \E path \in Paths : LoadModelFail(t, path)
    \/ \E path \in Paths \ {""} : LoadCtxFail(t, path)
    \/ \E path \in Paths \ {""} : LoadOk(t, path)

(***************************************************************************)
(* nativeIsLoaded                                                           *)
(***************************************************************************)
\* a slip: the flag is reported without the null test on the handle
IsLoadedRetNoNullCheck(h) == is_loaded

\* if (!llamaCtx) return JNI_FALSE; return llamaCtx->is_loaded
IsLoadedRet(h) == IF h = 0 THEN FALSE ELSE is_loaded

IsLoaded(t, h) ==
    /\ CanCall(t)
    /\ hist' = [hist EXCEPT ![t] = Entry(t, "isLoaded", h, IF h = 0 THEN "null" ELSE "ok")]
    /\ ub' = [ub EXCEPT ![t] = FALSE]
    /\ oplog' = [oplog EXCEPT ![t] = <<>>]
    /\ ret' = [ret EXCEPT ![t] = BoolRet(IsLoadedRet(h))]
    /\ loc' = [loc EXCEPT ![t] = NoLoc]
    /\ UNCHANGED <<session, runtime, pc>>

(***************************************************************************)
(* nativeUnload                                                             *)
(***************************************************************************)
\* a slip: the released sampler stays in the sampler field
UnloadSamplerKept(s) == s

\* llamaCtx->sampler after llama_sampler_free in nativeUnload
UnloadSampler(s) == 0

\* a slip: the released model stays in the model field
UnloadModelKept(m) == m

\* llamaCtx->model after llama_model_free in nativeUnload
UnloadModel(m) == 0

UnloadLog ==
    (IF sampler # 0 THEN <<Op("sampler_free", sampler, 0, 0)>> ELSE <<>>)
    \o (IF ctx # 0 THEN <<Op("free", ctx, 0, 0)>> ELSE <<>>)
    \o (IF model # 0 THEN <<Op("model_free", model, 0, 0)>> ELSE <<>>)

Unload(t, h) ==
    /\ CanCall(t)
    /\ hist' = [hist EXCEPT ![t] = Entry(t, "unload", h, IF h = 0 THEN "null" ELSE "ok")]
    /\ ub' = [ub EXCEPT ![t] = FALSE]
    /\ ret' = [ret EXCEPT ![t] = NoRet]
    /\ IF h = 0
       THEN /\ oplog' = [oplog EXCEPT ![t] = <<>>]
            /\ UNCHANGED <<session, runtime>>
       ELSE /\ rel_sampler' = Release(rel_sampler, sampler)
            /\ samp_temp' = Forget(samp_temp, sampler, NoTemp)
            /\ sampler' = UnloadSampler(sampler)
            /\ rel_ctx' = Release(rel_ctx, ctx)
            /\ kv' = Forget(kv, ctx, {})
            /\ ctx' = 0
            /\ rel_model' = Release(rel_model, model)
            /\ model' = UnloadModel(model)
            /\ is_loaded' = FALSE
            /\ oplog' = [oplog EXCEPT ![t] = UnloadLog]
            /\ UNCHANGED <<alive, model_path, n_gen_calls, crashed>>
    /\ loc' = [loc EXCEPT ![t] = NoLoc]
    /\ UNCHANGED pc

(***************************************************************************)
(* nativeFree                                                               *)
(***************************************************************************)
Free(t, h) ==
    /\ CanCall(t)
    /\ hist' = [hist EXCEPT ![t] = Entry(t, "free", h, IF h = 0 THEN "null" ELSE "ok")]
    /\ ub' = [ub EXCEPT ![t] = FALSE]
    /\ ret' = [ret EXCEPT ![t] = NoRet]
    /\ IF h = 0
       THEN /\ oplog' = [oplog EXCEPT ![t] = <<>>]
            /\ UNCHANGED <<session, runtime>>
       ELSE /\ rel_sampler' = Release(rel_sampler, sampler)
            /\ samp_temp' = Forget(samp_temp, sampler, NoTemp)
            /\ rel_ctx' = Release(rel_ctx, ctx)
            /\ kv' = Forget(kv, ctx, {})
            /\ rel_model' = Release(rel_model, model)
            /\ alive' = FALSE
            /\ oplog' = [oplog EXCEPT ![t] = UnloadLog]
            /\ UNCHANGED <<model, ctx, sampler, model_path, is_loaded,
                           n_gen_calls, crashed>>
    /\ loc' = [loc EXCEPT ![t] = NoLoc]
    /\ UNCHANGED pc

(***************************************************************************)
(* nativeGenerate                                                           *)
(***************************************************************************)
\* a slip: only the handle is tested
NotLoadedCheckHandleOnly(h) == h = 0

\* if (!llamaCtx || !llamaCtx->is_loaded)
NotLoadedCheck(h) == h = 0 \/ ~is_loaded

\* a slip: one iteration too many
LoopCondInclusive(i, max_tokens) == i <= max_tokens

\* for (int i = 0; i < max_tokens; i++)
LoopCond(i, max_tokens) == i < max_tokens

\* a slip: the end-of-generation check never fires
IsEogNever(tok) == FALSE

\* llama_vocab_is_eog(vocab, new_token)
IsEog(tok) == tok = EOG

\* what the second llama_tokenize call may return for a buffer of cap tokens
TokenizeRetryAnswers(cap) == {cap, -cap}

\* what the second llama_token_to_piece call may return for a buffer of cap bytes
PieceRetryAnswers(cap) == {cap - 1, -cap}

Log(t, e) == oplog' = [oplog EXCEPT ![t] = Append(@, e)]

\* nativeGenerate returns r; its locals keep their last values until the
\* thread's next native call
Return(t, r, outcome) ==
    /\ ret' = [ret EXCEPT ![t] = r]
    /\ hist' = [hist EXCEPT ![t].outcome = outcome]
    /\ pc' = [pc EXCEPT ![t] = "idle"]

\* the next runtime call of nativeGenerate is handed a null or released object
UsesBad(t) ==
    CASE pc[t] = "sampler_free" -> Dangling(rel_sampler, sampler)
      [] pc[t] \in {"tokenize", "tokenize_retry"} -> Bad(rel_model, model)
      [] pc[t] \in {"kv_clear", "prefill", "decode"} -> Bad(rel_ctx, ctx)
      [] pc[t] = "loop" -> IF LoopCond(loc[t].i, loc[t].max_tokens)
                           THEN IF Bad(rel_sampler, sampler) THEN TRUE
                                ELSE Bad(rel_ctx, ctx)
                           ELSE FALSE
      [] OTHER -> FALSE

\* the process dies inside a runtime call that was handed such an object
GenCrash(t) ==
    /\ ~crashed
    /\ UsesBad(t)
    /\ crashed' = TRUE
    /\ pc' = [pc EXCEPT ![t] = "crashed"]
    /\ hist' = [hist EXCEPT ![t].outcome = "crashed"]
    /\ UNCHANGED <<session, rel_model, rel_ctx, rel_sampler, samp_temp, kv,
                   n_gen_calls, ub, loc, oplog, ret>>

\* null handle or session not loaded: return the error text
GenNotLoaded(t, h) ==
    /\ CanCall(t)
    /\ NotLoadedCheck(h)
    /\ hist' = [hist EXCEPT ![t] = Entry(t, "generate", h, "not_loaded")]
    /\ ub' = [ub EXCEPT ![t] = FALSE]
    /\ oplog' = [oplog EXCEPT ![t] = <<>>]
    /\ loc' = [loc EXCEPT ![t] = NoLoc]
    /\ ret' = [ret EXCEPT ![t] = ErrRet(ErrNotLoaded)]
    /\ UNCHANGED <<session, runtime, pc>>

\* the loaded check passes; the arguments are read
GenBegin(t, plen, max_tokens, temperature) ==
    /\ CanCall(t)
    /\ ~NotLoadedCheck(1)
    /\ Len(rel_sampler) < MaxSamplers
    /\ n_gen_calls' = n_gen_calls + 1
    /\ loc' = [loc EXCEPT ![t] = [NoLoc EXCEPT !.prompt_len = plen,
                                               !.max_tokens = max_tokens,
                                               !.temperature = temperature,
                                               !.gid = n_gen_calls + 1]]
    /\ hist' = [hist EXCEPT ![t] = Entry(t, "generate", 1, "running")]
    /\ ub' = [ub EXCEPT ![t] = FALSE]
    /\ oplog' = [oplog EXCEPT ![t] = <<>>]
    /\ ret' = [ret EXCEPT ![t] = NoRet]
    /\ pc' = [pc EXCEPT ![t] = "sampler_free"]
    /\ UNCHANGED <<session, rel_model, rel_ctx, rel_sampler, samp_temp, kv, crashed>>

\* a slip: the old sampler chain is not released
GenReleaseSamplerLeak(rel, s) == rel

\* the release counts after llama_sampler_free(llamaCtx->sampler)
GenReleaseSampler(rel, s) == Release(rel, s)

\* llama_sampler_free(llamaCtx->sampler)
GenSamplerFree(t) ==
    /\ pc[t] = "sampler_free" /\ ~crashed
    /\ rel_sampler' = GenReleaseSampler(rel_sampler, sampler)
    /\ samp_temp' = Forget(samp_temp, sampler, NoTemp)
    /\ ub' = [ub EXCEPT ![t] = @ \/ Dangling(rel_sampler, sampler)]
    /\ Log(t, Op("sampler_free", sampler, 0, 0))
    /\ pc' = [pc EXCEPT ![t] = "sampler_init"]
    /\ UNCHANGED <<session, rel_model, rel_ctx, kv, n_gen_calls, crashed,
                   loc, hist, ret>>

\* a slip: the new chain is not stored in the session
InstalledSamplerKept(old, new) == old

\* llamaCtx->sampler = llama_sampler_chain_init(sparams)
InstalledSampler(old, new) == new

\* a slip: the new chain is built with the temperature of nativeLoadModel
NewSamplerTempDefault(temperature) == DefaultTemp

\* llama_sampler_init_temp(temperature): the temperature stage of the new chain
NewSamplerTemp(temperature) == temperature

\* llamaCtx->sampler = llama_sampler_chain_init(...) with the two stages
GenSamplerInit(t) ==
    /\ pc[t] = "sampler_init" /\ ~crashed
    /\ LET s == Len(rel_sampler) + 1 IN
        /\ sampler' = InstalledSampler(sampler, s)
        /\ rel_sampler' = Append(rel_sampler, 0)
        /\ samp_temp' = Append(samp_temp, NewSamplerTemp(loc[t].temperature))
        /\ Log(t, Op("sampler_init", s, NewSamplerTemp(loc[t].temperature), 0))
    /\ pc' = [pc EXCEPT ![t] = "tokenize"]
    /\ UNCHANGED <<alive, model, ctx, model_path, is_loaded, rel_model, rel_ctx, kv,
                   n_gen_calls, crashed, ub, loc, hist, ret>>

\* llama_model_get_vocab and the first llama_tokenize
GenTokenize(t) ==
    /\ pc[t] = "tokenize" /\ ~crashed
    /\ \E n \in TokenizeAnswers :
        LET cap == loc[t].prompt_len + TokenizeHeadroom IN
         /\ Log(t, Op("tokenize", cap, n, 0))
         /\ loc' = [loc EXCEPT ![t].cap = IF n < 0 THEN cap ELSE n,
                               ![t].n_tokens_prompt = n]
         /\ pc' = [pc EXCEPT ![t] = IF n < 0 THEN "tokenize_retry" ELSE "kv_clear"]
    /\ ub' = [ub EXCEPT ![t] = @ \/ Bad(rel_model, model)]
    /\ UNCHANGED <<session, rel_model, rel_ctx, rel_sampler, samp_temp, kv,
                   n_gen_calls, crashed, hist, ret>>

\* a slip: the retry buffer is one token short of what the runtime asked for
RetryCapShort(n) == -n - 1

\* tokens.resize(-n_tokens_prompt): the capacity of the buffer of the retry
RetryCap(n) == -n

\* tokens.resize(-n_tokens_prompt) and the second llama_tokenize
GenTokenizeRetry(t) ==
    /\ pc[t] = "tokenize_retry" /\ ~crashed
    /\ LET cap == RetryCap(loc[t].n_tokens_prompt) IN
       \E n \in TokenizeRetryAnswers(cap) :
        /\ Log(t, Op("tokenize", cap, n, 0))
        /\ ub' = [ub EXCEPT ![t] = @ \/ Bad(rel_model, model)]
        /\ IF n < 0
           THEN /\ loc' = [loc EXCEPT ![t].cap = cap, ![t].n_tokens_prompt = n]
                /\ Return(t, ErrRet(ErrTokenize), "tokenize_error")
           ELSE /\ loc' = [loc EXCEPT ![t].cap = n, ![t].n_tokens_prompt = n]
                /\ pc' = [pc EXCEPT ![t] = "kv_clear"]
                /\ UNCHANGED <<hist, ret>>
    /\ UNCHANGED <<session, rel_model, rel_ctx, rel_sampler, samp_temp, kv,
                   n_gen_calls, crashed>>

\* a slip: the cache is not cleared between prompts
KvKept(cache) == cache

\* the content of a context's cache after llama_kv_cache_clear
KvCleared(cache) == {}

\* llama_kv_cache_clear(llamaCtx->ctx)
GenKvClear(t) ==
    /\ pc[t] = "kv_clear" /\ ~crashed
    /\ kv' = IF ctx = 0 THEN kv ELSE [kv EXCEPT ![ctx] = KvCleared(@)]
    /\ ub' = [ub EXCEPT ![t] = @ \/ Bad(rel_ctx, ctx)]
    /\ Log(t, Op("kv_clear", ctx, 0, 0))
    /\ pc' = [pc EXCEPT ![t] = "prefill"]
    /\ UNCHANGED <<session, rel_model, rel_ctx, rel_sampler, samp_temp, n_gen_calls,
                   crashed, loc, hist, ret>>

\* a slip: the status of the prompt's llama_decode is ignored
PrefillNeverAborts(ok) == FALSE

\* if (llama_decode(ctx, batch) != 0): the failed prefill aborts the call
PrefillAborts(ok) == ~ok

\* llama_decode of the whole prompt
GenPrefill(t) ==
    /\ pc[t] = "prefill" /\ ~crashed
    /\ \E ok \in BOOLEAN :
        /\ Log(t, Op("prefill", ctx, loc[t].n_tokens_prompt, IF ok THEN 0 ELSE 1))
        /\ IF ~PrefillAborts(ok)
           THEN /\ kv' = IF ctx = 0 THEN kv ELSE [kv EXCEPT ![ctx] = @ \cup {loc[t].gid}]
                /\ pc' = [pc EXCEPT ![t] = "loop"]
                /\ UNCHANGED <<hist, ret>>
           ELSE /\ Return(t, ErrRet(ErrPrefill), "prefill_error")
                /\ UNCHANGED kv
    /\ ub' = [ub EXCEPT ![t] = @ \/ Bad(rel_ctx, ctx)]
    /\ UNCHANGED <<session, rel_model, rel_ctx, rel_sampler, samp_temp, n_gen_calls,
                   crashed, loc>>

\* the loop test, llama_sampler_sample and the end-of-generation check
GenLoop(t) ==
    /\ pc[t] = "loop" /\ ~crashed
    /\ IF ~LoopCond(loc[t].i, loc[t].max_tokens)
       THEN /\ Return(t, TextRet(loc[t].result), "budget")
            /\ UNCHANGED <<loc, oplog, ub>>
       ELSE \E tok \in SampleAnswers :
             /\ Log(t, Op("sample", tok, sampler, ctx))
             /\ ub' = [ub EXCEPT ![t] = IF Bad(rel_sampler, sampler) THEN TRUE
                                            ELSE @ \/ Bad(rel_ctx, ctx)]
             /\ loc' = [loc EXCEPT ![t].new_token = tok]
             /\ IF IsEog(tok)
                THEN Return(t, TextRet(loc[t].result), "eog")
                ELSE /\ pc' = [pc EXCEPT ![t] = "detok"]
                     /\ UNCHANGED <<hist, ret>>
    /\ UNCHANGED <<session, rel_model, rel_ctx, rel_sampler, samp_temp, kv,
                   n_gen_calls, crashed>>

\* a slip: a piece that fills the buffer exactly is not retried
NeedsRetryStrict(n1) == n1 > BufSize

\* else if (n >= static_cast<int>(buf.size()))
NeedsRetry(n1) == n1 >= BufSize

\* a slip: the piece fetched by the retry is not appended
FragmentNoRetry(tok, n1, n2) ==
    IF n1 > 0 /\ n1 < BufSize THEN <<[tok |-> tok, n |-> n1]>> ELSE <<>>

\* the bytes appended to result for a token, given the answers n1 and n2 of
\* the first and of the second llama_token_to_piece call
Fragment(tok, n1, n2) ==
    IF n1 > 0 /\ n1 < BufSize THEN <<[tok |-> tok, n |-> n1]>>
    ELSE IF NeedsRetry(n1) /\ n2 > 0 THEN <<[tok |-> tok, n |-> n2]>>
    ELSE <<>>

\* llama_token_to_piece into buf(512), retried once with n + 1 bytes
GenDetok(t) ==
    /\ pc[t] = "detok" /\ ~crashed
    /\ \E n1 \in PieceAnswers :
       \E n2 \in (IF NeedsRetry(n1) THEN PieceRetryAnswers(n1 + 1) ELSE {0}) :
        /\ oplog' = [oplog EXCEPT ![t] =
              @ \o <<Op("piece", loc[t].new_token, BufSize, n1)>>
                \o (IF NeedsRetry(n1)
                    THEN <<Op("piece", loc[t].new_token, n1 + 1, n2)>> ELSE <<>>)]
        /\ loc' = [loc EXCEPT ![t].result = @ \o Fragment(loc[t].new_token, n1, n2)]
    /\ pc' = [pc EXCEPT ![t] = "decode"]
    /\ UNCHANGED <<session, runtime, ub, hist, ret>>

\* a slip: a failed decode of a sampled token is reported like a failed prefill
DecodeFailAsError(result) == ErrRet(ErrPrefill)

\* what generate returns when llama_decode of a sampled token fails: the
\* break leaves the loop and the text accumulated so far is returned
DecodeFailResult(result) == TextRet(result)

\* llama_decode of the new token, n_gen++ and i++
GenDecode(t) ==
    /\ pc[t] = "decode" /\ ~crashed
    /\ \E ok \in BOOLEAN :
        /\ Log(t, Op("decode", loc[t].new_token, ctx, IF ok THEN 0 ELSE 1))
        /\ ub' = [ub EXCEPT ![t] = @ \/ Bad(rel_ctx, ctx)]
        /\ IF ok
           THEN /\ kv' = IF ctx = 0 THEN kv ELSE [kv EXCEPT ![ctx] = @ \cup {loc[t].gid}]
                /\ loc' = [loc EXCEPT ![t].n_gen = @ + 1, ![t].i = @ + 1]
                /\ pc' = [pc EXCEPT ![t] = "loop"]
                /\ UNCHANGED <<hist, ret>>
           ELSE /\ Return(t, DecodeFailResult(loc[t].result), "decode_fail")
                /\ UNCHANGED <<kv, loc>>
    /\ UNCHANGED <<session, rel_model, rel_ctx, rel_sampler, samp_temp, n_gen_calls,
                   crashed>>

Generate(t) ==
    \/ \E h \in Handles : GenNotLoaded(t, h)
    \/ \E plen \in PromptLens, max_tokens \in Budgets, temperature \in Temperatures :
          GenBegin(t, plen, max_tokens, temperature)
    \/ GenSamplerFree(t)
    \/ GenSamplerInit(t)
    \/ GenTokenize(t)
    \/ GenTokenizeRetry(t)
    \/ GenKvClear(t)
    \/ GenPrefill(t)
    \/ GenLoop(t)
    \/ GenDetok(t)
    \/ GenDecode(t)
    \/ GenCrash(t)

(***************************************************************************)
(* One caller thread: the calls of a session are serialized.                *)
(***************************************************************************)
Next ==
    \E t \in Threads :
        \/ Load(t)
        \/ Generate(t)
        \/ \E h \in Handles : IsLoaded(t, h)
        \/ \E h \in Handles : Unload(t, h)
        \/ \E h \in Handles : Free(t, h)

Spec == Init /\ [][Next]_vars

(***************************************************************************)
(* Two caller threads on one session, nothing serializing them: the JNI     *)
(* functions take no lock.  Thread 1 loads the session once, then each      *)
(* thread calls nativeGenerate once and their steps interleave freely.      *)
(***************************************************************************)
\* max_tokens the two concurrent callers pass
ConcBudgets == {1}

InitConc ==
    /\ alive = TRUE
    /\ model = 0 /\ ctx = 0 /\ sampler = 0
    /\ model_path = ""
    /\ is_loaded = FALSE
    /\ rel_model = <<>> /\ rel_ctx = <<>> /\ rel_sampler = <<>>
    /\ samp_temp = <<>>
    /\ kv = <<>>
    /\ n_gen_calls = 0
    /\ crashed = FALSE
    /\ ub = [t \in Threads |-> FALSE]
    /\ pc = [t \in Threads |-> "idle"]
    /\ loc = [t \in Threads |-> NoLoc]
    /\ oplog = [t \in Threads |-> <<>>]
    /\ hist = [t \in Threads |-> [op |-> "init", h |-> 1, outcome |-> "", after_unload |-> FALSE,
                                  pre |-> [is_loaded |-> FALSE, model |-> 0, ctx |-> 0,
                                           sampler |-> 0, model_path |-> "",
                                           rel_model |-> <<>>, rel_ctx |-> <<>>,
                                           rel_sampler |-> <<>>, kv |-> <<>>,
                                           temp |-> NoTemp]]]
    /\ ret = [t \in Threads |-> NoRet]

NextConc ==
    \E t \in Threads :
        \/ /\ t = 1 /\ rel_model = <<>>
           /\ \E path \in Paths \ {""} : LoadOk(t, path)
        \/ /\ hist[t].op # "generate"
           /\ \E plen \in PromptLens, max_tokens \in ConcBudgets,
                 temperature \in Temperatures :
                 GenBegin(t, plen, max_tokens, temperature)
        \/ GenSamplerFree(t)
        \/ GenSamplerInit(t)
        \/ GenTokenize(t)
        \/ GenTokenizeRetry(t)
        \/ GenKvClear(t)
        \/ GenPrefill(t)
        \/ GenLoop(t)
        \/ GenDetok(t)
        \/ GenDecode(t)
        \/ GenCrash(t)

SpecConc == InitConc /\ [][NextConc]_vars

(***************************************************************************)
(* Properties.                                                              *)
(***************************************************************************)
Max0(n) == IF n < 0 THEN 0 ELSE n

HandlesOf(st) == <<st.is_loaded, st.model, st.ctx, st.sampler>>

\* the outcomes with which nativeGenerate returns after a successful prefill
LoopOutcomes == {"budget", "eog", "decode_fail"}

\* C1: whenever is_loaded is true, the model, context and sampler handles
\* are all non-null.
C1_LoadedImpliesHandles ==
    is_loaded => (model # 0 /\ ctx # 0 /\ sampler # 0)

\* C2: a load that fails (no model, or no context) leaves the loaded flag and
\* the three handles as they were when load was called.
C2_FailedLoadKeepsState ==
    \A t \in Threads :
        (hist[t].op = "load" /\ hist[t].outcome \in {"model_fail", "ctx_fail"})
            => <<is_loaded, model, ctx, sampler>> = HandlesOf(hist[t].pre)

\* C3: after a load, the session references every model, context and sampler
\* that is still unreleased: a reload released what the session held before.
C3_ReloadReleasesPrior ==
    \A t \in Threads :
        hist[t].op = "load"
            => /\ Live(rel_model) \subseteq {model}
               /\ Live(rel_ctx) \subseteq {ctx}
               /\ Live(rel_sampler) \subseteq {sampler}

\* C4: when the model loads and context creation fails, the just-loaded model
\* is released exactly once, the model handle is null, load returns false,
\* the loaded flag is as before and no sampler is created.
C4_CtxFailReleasesModel ==
    \A t \in Threads :
        (hist[t].op = "load" /\ hist[t].outcome = "ctx_fail")
            => LET m == oplog[t][1].a IN
                /\ oplog[t][1].op = "load_model"
                /\ m = Len(hist[t].pre.rel_model) + 1
                /\ rel_model[m] = 1
                /\ model = 0
                /\ ret[t] = BoolRet(FALSE)
                /\ is_loaded = hist[t].pre.is_loaded
                /\ sampler = hist[t].pre.sampler
                /\ rel_sampler = hist[t].pre.rel_sampler
                /\ Count(oplog[t], "sampler_init") = 0

C4_Witness ==
    /\ hist[1].op = "load" /\ hist[1].outcome = "ctx_fail"
    /\ rel_model = <<1>>
    /\ ret[1] = BoolRet(FALSE)

\* C5: generate on a session that is not loaded returns the not-loaded error
\* text and makes no runtime call: nothing is released, built, tokenized,
\* cleared, decoded or sampled, and no released handle is used.
C5_NotLoadedNoRuntimeOp ==
    \A t \in Threads :
        (hist[t].op = "generate" /\ ~hist[t].pre.is_loaded)
            => /\ pc[t] = "idle"
               /\ ret[t] = ErrRet(ErrNotLoaded)
               /\ oplog[t] = <<>>
               /\ <<is_loaded, model, ctx, sampler>> = HandlesOf(hist[t].pre)
               /\ rel_model = hist[t].pre.rel_model
               /\ rel_ctx = hist[t].pre.rel_ctx
               /\ rel_sampler = hist[t].pre.rel_sampler
               /\ ~ub[t]

\* generate right after an unload that released a loaded session
C5_Witness ==
    /\ hist[1].op = "generate" /\ hist[1].h = 1 /\ hist[1].after_unload
    /\ ~hist[1].pre.is_loaded
    /\ rel_model = <<1>> /\ rel_ctx = <<1>> /\ rel_sampler = <<1>>
    /\ ret[1] = ErrRet(ErrNotLoaded)

\* C6: after unload the three handles are null and is_loaded is false; an
\* unload that directly follows an unload releases nothing and changes
\* nothing.
C6_UnloadIdempotent ==
    \A t \in Threads :
        (hist[t].op = "unload" /\ hist[t].h = 1)
            => /\ <<is_loaded, model, ctx, sampler>> = <<FALSE, 0, 0, 0>>
               /\ hist[t].after_unload
                    => /\ HandlesOf(hist[t].pre) = <<FALSE, 0, 0, 0>>
                       /\ oplog[t] = <<>>
                       /\ rel_model = hist[t].pre.rel_model
                       /\ rel_ctx = hist[t].pre.rel_ctx
                       /\ rel_sampler = hist[t].pre.rel_sampler
                       /\ model_path = hist[t].pre.model_path

\* the second of two consecutive unloads of a session that was loaded
C6_Witness ==
    /\ hist[1].op = "unload" /\ hist[1].h = 1 /\ hist[1].after_unload
    /\ rel_model = <<1>> /\ rel_ctx = <<1>> /\ rel_sampler = <<1>>
    /\ ~is_loaded

\* C7: no model, context or sampler is ever released more than once, and a
\* free that directly follows an unload releases nothing.
C7_NoDoubleRelease ==
    /\ \A id \in DOMAIN rel_model : rel_model[id] <= 1
    /\ \A id \in DOMAIN rel_ctx : rel_ctx[id] <= 1
    /\ \A id \in DOMAIN rel_sampler : rel_sampler[id] <= 1
    /\ \A t \in Threads :
        (hist[t].op = "free" /\ hist[t].h = 1 /\ hist[t].after_unload)
            => /\ oplog[t] = <<>>
               /\ rel_model = hist[t].pre.rel_model
               /\ rel_ctx = hist[t].pre.rel_ctx
               /\ rel_sampler = hist[t].pre.rel_sampler

\* free right after the unload of a session that ran a generate call
C7_Witness ==
    /\ hist[1].op = "free" /\ hist[1].h = 1 /\ hist[1].after_unload
    /\ ~alive
    /\ rel_model = <<1>> /\ rel_ctx = <<1>> /\ rel_sampler = <<1, 1>>

\* C8: a generate call samples at most max_tokens times (never when
\* max_tokens <= 0); with max_tokens = 0, after tokenize and prefill
\* succeeded, it samples nothing and returns the empty string.
C8_BudgetRespected ==
    \A t \in Threads :
        hist[t].op = "generate"
            => /\ Count(oplog[t], "sample") <= Max0(loc[t].max_tokens)
               /\ (pc[t] = "idle" /\ hist[t].outcome \in LoopOutcomes
                   /\ loc[t].max_tokens = 0)
                    => /\ Count(oplog[t], "sample") = 0
                       /\ ret[t] = TextRet(<<>>)

\* a call that used its whole budget
C8_Witness ==
    /\ hist[1].op = "generate" /\ pc[1] = "idle" /\ hist[1].outcome = "budget"
    /\ loc[1].max_tokens = MaxBudget
    /\ Count(oplog[1], "sample") = MaxBudget

\* the positions of the log at which the end-of-generation token was sampled
EogSamples(log) == {k \in DOMAIN log : log[k].op = "sample" /\ log[k].a = EOG}

\* C9: when the token sampled at iteration k is the end-of-generation token,
\* exactly k tokens were detokenized and k tokens were fed back to decode,
\* the end-of-generation token is neither detokenized nor decoded, and no
\* runtime call follows that sample in the generate call.
C9_EogStopsLoop ==
    \A t \in Threads :
        (hist[t].op = "generate" /\ EogSamples(oplog[t]) # {})
            => LET log == oplog[t]
                   k == loc[t].i
               IN
                /\ EogSamples(log) = {Len(log)}
                /\ pc[t] = "idle" /\ hist[t].outcome = "eog"
                /\ k < loc[t].max_tokens
                /\ Count(log, "sample") = k + 1
                /\ Count(log, "decode") = k
                /\ Cardinality({j \in DOMAIN log :
                                  log[j].op = "piece" /\ log[j].b = BufSize}) = k
                /\ \A j \in DOMAIN log :
                      log[j].op \in {"piece", "decode"} => log[j].a # EOG
                /\ loc[t].n_gen = k
                /\ ret[t] = TextRet(loc[t].result)

\* end of generation at iteration 1, after one token was produced
C9_Witness ==
    /\ hist[1].op = "generate" /\ hist[1].outcome = "eog"
    /\ loc[1].i = 1 /\ loc[1].max_tokens = MaxBudget
    /\ Len(loc[1].result) = 1

\* C10: a generate call that passed the loaded check releases the sampler it
\* found exactly once before it builds the replacement, and from then on the
\* session's sampler is the one live sampler that replaces it: the number of
\* live samplers is the same as on entry.
C10_SamplerReplacedNotLeaked ==
    \A t \in Threads :
        (hist[t].op = "generate" /\ hist[t].outcome # "not_loaded")
            => LET old == hist[t].pre.sampler
                   pre == hist[t].pre.rel_sampler
                   new == Len(pre) + 1
               IN
                /\ old # 0 /\ pre[old] = 0
                /\ pc[t] = "sampler_free" => (rel_sampler = pre /\ sampler = old)
                /\ pc[t] = "sampler_init"
                    => (rel_sampler = [pre EXCEPT ![old] = 1] /\ sampler = old)
                /\ pc[t] \notin {"sampler_free", "sampler_init"}
                    => /\ rel_sampler = Append([pre EXCEPT ![old] = 1], 0)
                       /\ sampler = new
                       /\ Live(rel_sampler) = (Live(pre) \ {old}) \cup {new}
                       /\ Cardinality(Live(rel_sampler)) = Cardinality(Live(pre))
                       /\ Live(pre) = {old} => Live(rel_sampler) = {sampler}

\* the second generate call of a session, with another temperature than the
\* one the session was loaded with, ending in a prefill error
C10_Witness ==
    /\ hist[1].op = "generate" /\ pc[1] = "idle"
    /\ hist[1].outcome = "prefill_error"
    /\ rel_sampler = <<1, 1, 0>> /\ sampler = 3
    /\ loc[1].temperature # DefaultTemp /\ samp_temp[3] = loc[1].temperature

\* a llama_token_to_piece call that produced a piece: the first call when the
\* piece fits the 512-byte buffer, the retry when it reports a positive length
PieceOk(e) ==
    /\ e.op = "piece"
    /\ e.c > 0
    /\ e.b = BufSize => e.c < BufSize

\* the text the runtime produced, call by call, for a log of runtime calls
RECURSIVE ExpectedText(_)
ExpectedText(log) ==
    IF log = <<>> THEN <<>>
    ELSE (IF PieceOk(Head(log))
          THEN <<[tok |-> Head(log).a, n |-> Head(log).c]>> ELSE <<>>)
         \o ExpectedText(Tail(log))

IsTokenSample(e) == e.op = "sample" /\ e.a # EOG
IsFirstPiece(e) == e.op = "piece" /\ e.b = BufSize

RECURSIVE TokensOf(_)
TokensOf(log) ==
    IF log = <<>> THEN <<>> ELSE <<Head(log).a>> \o TokensOf(Tail(log))

\* C11: a generate call whose tokenization and prefill succeeded returns
\* exactly the pieces the runtime produced for the sampled tokens that are not
\* end-of-generation, in sampling order.
C11_TextIsConcatenation ==
    \A t \in Threads :
        (hist[t].op = "generate" /\ pc[t] = "idle" /\ hist[t].outcome \in LoopOutcomes)
            => /\ ret[t] = TextRet(ExpectedText(oplog[t]))
               /\ TokensOf(SelectSeq(oplog[t], IsFirstPiece))
                    = TokensOf(SelectSeq(oplog[t], IsTokenSample))

\* the prompt "hi", token 7 sampled, then end of generation, 7 detokenized to
\* 2 bytes ("ok")
C11_Witness ==
    /\ hist[1].op = "generate" /\ pc[1] = "idle" /\ hist[1].outcome = "eog"
    /\ loc[1].prompt_len = 2 /\ loc[1].max_tokens = MaxBudget
    /\ loc[1].temperature = DefaultTemp
    /\ TokensOf(SelectSeq(oplog[1], IsTokenSample)) = <<7>>
    /\ ret[1] = TextRet(<<[tok |-> 7, n |-> 2]>>)

\* C12: when llama_decode of a sampled token fails, that call is the last
\* runtime call of the generate call, and the call returns the text accumulated
\* so far, the piece of the token whose decode failed included, not an error
\* payload.
C12_DecodeFailReturnsPartial ==
    \A t \in Threads : \A j \in 1 .. Len(oplog[t]) :
        (oplog[t][j].op = "decode" /\ oplog[t][j].c = 1)
            => /\ j = Len(oplog[t])
               /\ pc[t] = "idle" /\ hist[t].outcome = "decode_fail"
               /\ ret[t].err = ""
               /\ ret[t] = TextRet(ExpectedText(oplog[t]))
               /\ PieceOk(oplog[t][j - 1])
                    => /\ ret[t].text # <<>>
                       /\ ret[t].text[Len(ret[t].text)]
                            = [tok |-> oplog[t][j].a, n |-> oplog[t][j - 1].c]

\* the decode of the second sampled token fails and both pieces are returned
C12_Witness ==
    /\ hist[1].op = "generate" /\ hist[1].outcome = "decode_fail"
    /\ loc[1].i = 1
    /\ Len(ret[1].text) = 2

\* C13: when llama_decode of the prompt fails, it is the last runtime call of
\* the generate call: nothing is sampled, detokenized or decoded, the call
\* returns the prompt-evaluation error payload, and is_loaded, the model
\* handle and the context handle are as the call found them.
C13_PrefillFailAborts ==
    \A t \in Threads : \A j \in 1 .. Len(oplog[t]) :
        (oplog[t][j].op = "prefill" /\ oplog[t][j].c = 1)
            => /\ j = Len(oplog[t])
               /\ pc[t] = "idle" /\ hist[t].outcome = "prefill_error"
               /\ ret[t] = ErrRet(ErrPrefill)
               /\ Count(oplog[t], "sample") = 0
               /\ Count(oplog[t], "piece") = 0
               /\ Count(oplog[t], "decode") = 0
               /\ is_loaded = hist[t].pre.is_loaded
               /\ model = hist[t].pre.model
               /\ ctx = hist[t].pre.ctx

\* a generate call on a loaded session whose prefill failed
C13_Witness ==
    /\ hist[1].op = "generate" /\ hist[1].outcome = "prefill_error"
    /\ is_loaded /\ model # 0 /\ ctx # 0
    /\ oplog[1][Len(oplog[1])].op = "prefill"

\* C14: a load called with the empty path returns false without asking the
\* runtime to load a model and leaves every session field as it found it.
C14_EmptyPathRejected ==
    \A t \in Threads :
        (hist[t].op = "load" /\ hist[t].h = 1 /\ model_path = "")
            => /\ ret[t] = BoolRet(FALSE)
               /\ Count(oplog[t], "load_model") = 0
               /\ <<is_loaded, model, ctx, sampler>> = HandlesOf(hist[t].pre)
               /\ model_path = hist[t].pre.model_path

\* a call made with the null handle made no runtime call and left the session
\* and every runtime object as it found them
NullCallTouchedNothing(t) ==
    /\ pc[t] = "idle" /\ alive /\ ~ub[t]
    /\ oplog[t] = <<>>
    /\ <<is_loaded, model, ctx, sampler>> = HandlesOf(hist[t].pre)
    /\ model_path = hist[t].pre.model_path
    /\ rel_model = hist[t].pre.rel_model
    /\ rel_ctx = hist[t].pre.rel_ctx
    /\ rel_sampler = hist[t].pre.rel_sampler

\* C15 as stated: every operation called with the null handle makes no runtime
\* call and returns a safe default: load and isLoaded return false, unload and
\* free return nothing, generate returns the empty text.
C15_NullHandleEmptyText ==
    \A t \in Threads :
        hist[t].h = 0
            => /\ NullCallTouchedNothing(t)
               /\ hist[t].op \in {"load", "isLoaded"} => ret[t] = BoolRet(FALSE)
               /\ hist[t].op \in {"unload", "free"} => ret[t] = NoRet
               /\ hist[t].op = "generate" => (ret[t].err = "" /\ ret[t].text = <<>>)

\* C15, amended: every operation called with the null handle makes no runtime
\* call and changes nothing; load and isLoaded return false, unload and free
\* return nothing, and generate returns the not-loaded error text.
C15_NullHandleSafe ==
    \A t \in Threads :
        hist[t].h = 0
            => /\ NullCallTouchedNothing(t)
               /\ hist[t].op \in {"load", "isLoaded"} => ret[t] = BoolRet(FALSE)
               /\ hist[t].op \in {"unload", "free"} => ret[t] = NoRet
               /\ hist[t].op = "generate" => ret[t] = ErrRet(ErrNotLoaded)

\* generate with the null handle while a session is loaded
C15_Witness ==
    /\ hist[1].op = "generate" /\ hist[1].h = 0
    /\ is_loaded /\ sampler # 0
    /\ ret[1] = ErrRet(ErrNotLoaded)

IsTokenize(e) == e.op = "tokenize"
IsPrefill(e) == e.op = "prefill"

\* C16: a generate call calls llama_tokenize at most twice; the second call is
\* made only after a negative first answer, with a buffer of exactly the
\* magnitude of that answer; when the second answer is negative too the call
\* returns the tokenization error payload and neither clears the cache nor
\* prefills nor samples; otherwise the token sequence handed to the prefill
\* has exactly the returned count as its length.
C16_TokenizeRetryOnce ==
    \A t \in Threads :
        LET toks == SelectSeq(oplog[t], IsTokenize)
            pre == SelectSeq(oplog[t], IsPrefill)
        IN  hist[t].op = "generate"
            => /\ Len(toks) <= 2
               /\ (Len(toks) = 1 /\ toks[1].b < 0) => pc[t] \in {"tokenize_retry", "crashed"}
               /\ Len(toks) = 2 => (toks[1].b < 0 /\ toks[2].a = -toks[1].b)
               /\ (Len(toks) = 2 /\ toks[2].b < 0)
                    => /\ pc[t] = "idle"
                       /\ ret[t] = ErrRet(ErrTokenize)
                       /\ oplog[t][Len(oplog[t])] = toks[2]
                       /\ Count(oplog[t], "kv_clear") = 0
                       /\ Count(oplog[t], "prefill") = 0
                       /\ Count(oplog[t], "sample") = 0
               /\ pre # <<>>
                    => /\ Len(pre) = 1
                       /\ toks # <<>>
                       /\ toks[Len(toks)].b >= 0
                       /\ pre[1].b = toks[Len(toks)].b
                       /\ loc[t].cap = toks[Len(toks)].b

\* the first answer was negative, the retry succeeded and the prompt was
\* prefilled with the count the retry returned
C16_Witness ==
    LET toks == SelectSeq(oplog[1], IsTokenize)
        pre == SelectSeq(oplog[1], IsPrefill)
    IN  /\ hist[1].op = "generate"
        /\ Len(toks) = 2 /\ toks[1].b < 0 /\ toks[2].b = -toks[1].b
        /\ Len(pre) = 1 /\ pre[1].b = toks[2].b

\* C17: in a generate call the prompt's llama_decode is directly preceded by
\* llama_kv_cache_clear on the same context, which follows the successful
\* llama_tokenize; when the prefill is about to run the context's cache is
\* empty, and from the prefill on it holds entries of this call only.
C17_CacheClearedBeforePrefill ==
    \A t \in Threads :
        hist[t].op = "generate"
            => /\ \A j \in 1 .. Len(oplog[t]) :
                    oplog[t][j].op = "prefill"
                        => /\ j >= 3
                           /\ oplog[t][j - 1].op = "kv_clear"
                           /\ oplog[t][j - 1].a = oplog[t][j].a
                           /\ oplog[t][j - 2].op = "tokenize"
                           /\ oplog[t][j - 2].b >= 0
               /\ (pc[t] = "prefill" /\ ctx # 0) => kv[ctx] = {}
               /\ (Count(oplog[t], "prefill") > 0 /\ ctx # 0) => kv[ctx] \subseteq {loc[t].gid}

\* a generate call is about to prefill on a context whose cache held the
\* entries of an earlier call when this call began
C17_Witness ==
    /\ hist[1].op = "generate" /\ pc[1] = "prefill"
    /\ ctx # 0 /\ ctx = hist[1].pre.ctx
    /\ hist[1].pre.kv[ctx] # {}
    /\ loc[1].gid \notin hist[1].pre.kv[ctx]
    /\ kv[ctx] = {}

\* C18: a llama_token_to_piece call that fails never fails the request.  The
\* first call for a sampled token uses the 512-byte buffer; it is retried, once
\* and with capacity n + 1, exactly when it reports n >= 512; a token whose
\* piece is not obtained adds nothing to the text; after the last piece call
\* the same token is handed to llama_decode, and when that succeeds the loop
\* goes on; no error payload is returned.
C18_DetokFailureIsSilent ==
    \A t \in Threads :
        LET log == oplog[t] IN
        hist[t].op = "generate"
            => /\ \A j \in 1 .. Len(log) :
                    log[j].op = "piece"
                        => /\ j >= 2
                           /\ IF log[j].b = BufSize
                              THEN /\ log[j - 1].op = "sample"
                                   /\ log[j - 1].a = log[j].a /\ log[j].a # EOG
                                   /\ (log[j].c >= BufSize)
                                        <=> (j < Len(log) /\ log[j + 1].op = "piece")
                              ELSE /\ log[j - 1].op = "piece"
                                   /\ log[j - 1].b = BufSize
                                   /\ log[j - 1].a = log[j].a
                                   /\ log[j - 1].c >= BufSize
                                   /\ log[j].b = log[j - 1].c + 1
                                   /\ j < Len(log) => log[j + 1].op # "piece"
                           /\ (j < Len(log) /\ log[j + 1].op # "piece")
                                => (log[j + 1].op = "decode" /\ log[j + 1].a = log[j].a)
                           /\ j = Len(log) => pc[t] \in {"decode", "crashed"}
               /\ Count(log, "piece") <= 2 * Len(SelectSeq(log, IsTokenSample))
               /\ Count(log, "piece") > 0
                    => /\ loc[t].result = ExpectedText(log)
                       /\ ret[t].err = ""
                       /\ pc[t] = "idle" => hist[t].outcome \in LoopOutcomes
               /\ (log # <<>> /\ log[Len(log)].op = "decode" /\ log[Len(log)].c = 0)
                    => \/ pc[t] \in {"loop", "crashed"}
                       \/ pc[t] = "idle" /\ hist[t].outcome = "budget"

\* the piece of a token was too long, the retry failed, the token was decoded
\* all the same and the loop sampled the next token; the text holds nothing
\* for the first token
C18_Witness ==
    /\ hist[1].op = "generate"
    /\ \E j \in 1 .. Len(oplog[1]) - 2 :
        /\ oplog[1][j].op = "piece" /\ oplog[1][j].b > BufSize /\ oplog[1][j].c <= 0
        /\ oplog[1][j + 1].op = "decode" /\ oplog[1][j + 1].c = 0
        /\ oplog[1][j + 2].op = "sample"
    /\ Count(oplog[1], "decode") = 1
    /\ loc[1].result = <<>>

\* the generate call of thread t passed the loaded check and is past the
\* point where the sampler is handled
PastSampler(t) ==
    /\ hist[t].op = "generate" /\ hist[t].outcome # "not_loaded"
    /\ pc[t] \notin {"sampler_free", "sampler_init"}
    /\ Len(oplog[t]) >= 2

\* C19 as stated: generate releases and rebuilds the sampler only when the
\* requested temperature differs from the temperature of the session's
\* sampler; when they are equal the sampler is kept and no sampler is released
\* or built.
C19_RebuildOnlyOnChange ==
    \A t \in Threads :
        (PastSampler(t) /\ loc[t].temperature = hist[t].pre.temp)
            => /\ sampler = hist[t].pre.sampler
               /\ Count(oplog[t], "sampler_free") = 0
               /\ Count(oplog[t], "sampler_init") = 0

\* C19, amended: every generate call that passes the loaded check first
\* releases the session's sampler and then builds a new one with the requested
\* temperature, whether or not that temperature equals the one of the sampler
\* it found.
C19_RebuildAlways ==
    \A t \in Threads :
        (hist[t].op = "generate" /\ hist[t].outcome # "not_loaded"
            /\ pc[t] \notin {"sampler_free", "sampler_init"})
            => /\ Len(oplog[t]) >= 2
               /\ oplog[t][1] = Op("sampler_free", hist[t].pre.sampler, 0, 0)
               /\ oplog[t][2] = Op("sampler_init", sampler, loc[t].temperature, 0)
               /\ Count(oplog[t], "sampler_free") = 1
               /\ Count(oplog[t], "sampler_init") = 1
               /\ sampler # hist[t].pre.sampler
               /\ rel_sampler[hist[t].pre.sampler] = 1
               /\ rel_sampler[sampler] = 0
               /\ samp_temp[sampler] = loc[t].temperature

\* a generate call asked for the temperature the session's sampler already
\* had, and the session now holds another sampler
C19_Witness ==
    /\ PastSampler(1)
    /\ loc[1].temperature = hist[1].pre.temp
    /\ sampler # hist[1].pre.sampler
    /\ rel_sampler[hist[1].pre.sampler] = 1
    /\ samp_temp[sampler] = hist[1].pre.temp

\* C20: with two threads in nativeGenerate on one session and nothing
\* serializing them, a released sampler is in the session's sampler field
\* exactly while some call stands between its llama_sampler_free and its
\* llama_sampler_chain_init, and a call hands a released sampler to the
\* runtime only once both threads have entered generate: the use of a
\* released sampler is the work of the other thread's call.  C20_Witness is
\* the interleaving the claim speaks of.
C20_StaleSamplerOnlyByOverlap ==
    /\ Dangling(rel_sampler, sampler) => \E u \in Threads : pc[u] = "sampler_init"
    /\ \A t \in Threads :
        ub[t] => \A u \in Threads : hist[u].op = "generate"

\* thread 2 has released the session's sampler and has not yet built the new
\* one; thread 1, in its own generate call, has just sampled with that
\* released sampler
C20_Witness ==
    /\ ~crashed
    /\ hist[1].op = "generate" /\ hist[2].op = "generate"
    /\ pc[2] = "sampler_init"
    /\ oplog[2] = <<Op("sampler_free", sampler, 0, 0)>>
    /\ \A i \in 1 .. Len(rel_sampler) : rel_sampler[i] <= 1
    /\ rel_sampler[sampler] = 1
    /\ pc[1] = "detok"
    /\ Count(oplog[1], "sample") = 1
    /\ oplog[1][Len(oplog[1])].op = "sample"
    /\ oplog[1][Len(oplog[1])].b = sampler
    /\ ub[1]

====
